---- MODULE Spec2Model ----
(***************************************************************************)
(* North Med Diagnostics - Laboratory Reagent Inventory System             *)
(* (src/script.js).  The module models the four layers of the script:      *)
(*   DateUtils            parse / daysBetween / classifyExpiry             *)
(*   InventoryRepository  mapRowToItem / mapItemToRow / load / upsert /    *)
(*                        remove against the remote table                  *)
(*   InventoryService     createItem / validate / filter / sort /          *)
(*                        computeAlerts                                    *)
(*   UI                   state.items, state.filters, the event handlers   *)
(*                        and what they render                             *)
(*                                                                         *)
(* JavaScript values are records [t, n, s]: t is the type tag, n the       *)
(* number of a "num", s the characters of a "str".  A string that is an    *)
(* ISO calendar date 'YYYY-MM-DD' is written IsoDate(d): its characters    *)
(* are the single mark "#" and n is the day number d (days since           *)
(* 1970-01-01).  Time is counted in hours since the epoch.                 *)
(***************************************************************************)
EXTENDS Integers, Sequences, FiniteSets, TLC

VARIABLES
    env,        \* the browser: [now, tz, client]
    rows,       \* the remote table inventory_items: a set of rows, one per id
    items,      \* state.items
    filters,    \* state.filters
    sortField,  \* state.sortField
    sortDirection, \* state.sortDirection
    ops,        \* the Repository calls in flight, in the order they were issued
    nextId,     \* how many ids createItem has generated
    editId,     \* the value of #editId while the edit modal is open
    alertMsg,   \* the messages of the alert() on screen, <<>> when there is none
    tableBody,  \* the rows renderTable put in the table
    alertSummary, \* what renderAlerts showed: the tallies and the total
    download,   \* the rows of the last file exportCsv produced
    probe       \* the last call of a pure function: [fn, in, out]

vars == <<env, rows, items, filters, sortField, sortDirection, ops, nextId,
          editId, alertMsg, tableBody, alertSummary, download, probe>>

----------------------------------------------------------------------------
\* JavaScript values

Num(n) == [t |-> "num", n |-> n, s |-> <<>>]
NaN == [t |-> "nan", n |-> 0, s |-> <<>>]
Null == [t |-> "null", n |-> 0, s |-> <<>>]
Undefined == [t |-> "undef", n |-> 0, s |-> <<>>]
Str(chars) == [t |-> "str", n |-> 0, s |-> chars]
EmptyStr == Str(<<>>)
IsoDate(d) == [t |-> "str", n |-> d, s |-> <<"#">>]

\* ToBoolean: '', 0, NaN, null and undefined are falsy
Truthy(v) ==
    CASE v.t = "str" -> v.s # <<>>
      [] v.t = "num" -> v.n # 0
      [] OTHER -> FALSE

\* a || b
OrElse(a, b) == IF Truthy(a) THEN a ELSE b

\* a ?? b
Coalesce(a, b) == IF a.t \in {"null", "undef"} THEN b ELSE a

Digits == <<"0", "1", "2", "3", "4", "5", "6", "7", "8", "9">>
IsDigit(c) == \E k \in 1..10 : Digits[k] = c
DigitValue(c) == (CHOOSE k \in 1..10 : Digits[k] = c) - 1

RECURSIVE DigitsValue(_)
DigitsValue(chars) ==
    IF chars = <<>> THEN 0
    ELSE 10 * DigitsValue(SubSeq(chars, 1, Len(chars) - 1)) + DigitValue(chars[Len(chars)])

AllDigits(chars) == chars # <<>> /\ \A k \in 1..Len(chars) : IsDigit(chars[k])

\* Number('...'): '' is 0, a decimal numeral its value, anything else NaN
StringToNumber(chars) ==
    IF chars = <<>> THEN Num(0)
    ELSE IF AllDigits(chars) THEN Num(DigitsValue(chars))
    ELSE IF chars[1] = "-" /\ AllDigits(Tail(chars)) THEN Num(0 - DigitsValue(Tail(chars)))
    ELSE NaN

\* Number(v)
ToNumber(v) ==
    CASE v.t = "num" -> v
      [] v.t = "nan" -> NaN
      [] v.t = "null" -> Num(0)
      [] v.t = "undef" -> NaN
      [] v.t = "str" -> IF v.s = <<"#">> THEN NaN ELSE StringToNumber(v.s)

\* Number.isNaN(v): no coercion, true of the number NaN alone
NumberIsNaN(v) == v.t = "nan"

\* v == null
LooseNull(v) == v.t \in {"null", "undef"}

\* v < 0, v <= k: the operand is converted by ToNumber, NaN compares false
LessThan(v, k) == LET x == ToNumber(v) IN x.t = "num" /\ x.n < k
AtMost(v, k) == LET x == ToNumber(v) IN x.t = "num" /\ x.n <= k

\* a === b
StrictEq(a, b) == a.t # "nan" /\ b.t # "nan" /\ a = b

Upper == <<"A", "B", "C", "G", "H">>
Lower == <<"a", "b", "c", "g", "h">>
LowerChar(c) == IF \E k \in 1..Len(Upper) : Upper[k] = c
                THEN Lower[CHOOSE k \in 1..Len(Upper) : Upper[k] = c]
                ELSE c

\* s.toLowerCase()
toLowerCase(chars) == [k \in 1..Len(chars) |-> LowerChar(chars[k])]

\* h.includes(q)
includes(h, q) ==
    \E k \in 0..(Len(h) - Len(q)) : SubSeq(h, k + 1, k + Len(q)) = q

\* list.join(' ')
RECURSIVE join(_)
join(list) ==
    IF list = <<>> THEN <<>>
    ELSE IF Len(list) = 1 THEN list[1]
    ELSE list[1] \o <<" ">> \o join(Tail(list))

\* the UTF-16 order of the characters the model uses
Alphabet == <<" ", "#", "-", "0", "1", "2", "3", "4", "5", "6", "7", "8", "9",
              "A", "B", "C", "G", "H", "a", "b", "c", "g", "h", "l", "o", "u", "x", "z">>
CharCode(c) == CHOOSE k \in 1..Len(Alphabet) : Alphabet[k] = c

RECURSIVE StrGreater(_, _)
StrGreater(a, b) ==
    IF a = <<>> THEN FALSE
    ELSE IF b = <<>> THEN TRUE
    ELSE IF a[1] = b[1] THEN StrGreater(Tail(a), Tail(b))
    ELSE CharCode(a[1]) > CharCode(b[1])

\* a > b: two strings compare by code units, anything else as numbers
Greater(a, b) ==
    IF a.t = "str" /\ b.t = "str"
    THEN IF a.s = <<"#">> /\ b.s = <<"#">> THEN a.n > b.n ELSE StrGreater(a.s, b.s)
    ELSE LET x == ToNumber(a)
             y == ToNumber(b)
         IN x.t = "num" /\ y.t = "num" /\ x.n > y.n

----------------------------------------------------------------------------
\* DateUtils

HoursPerDay == 24

\* DateUtils.parse: null for a falsy or unparseable string, else the Date,
\* which for a date-only ISO string is midnight UTC of that day
parse(dateStr) ==
    IF ~Truthy(dateStr) THEN [ok |-> FALSE, time |-> 0]
    ELSE IF dateStr.t = "str" /\ dateStr.s = <<"#">>
         THEN [ok |-> TRUE, time |-> dateStr.n * HoursPerDay]
         ELSE [ok |-> FALSE, time |-> 0]

\* date.setHours(0, 0, 0, 0): midnight, in the browser's time zone, of the
\* local day the instant falls on
setHours0(time, tz) == ((time + tz) \div HoursPerDay) * HoursPerDay - tz

\* Math.round(a / b), b > 0
Round(a, b) == (2 * a + b) \div (2 * b)

daysBetween(from, to, tz) ==
    Round(setHours0(to, tz) - setHours0(from, tz), HoursPerDay)

\* DateUtils.classifyExpiry, e the browser (new Date() is e.now)
classifyExpiry(expiryDateStr, e) ==
    LET expiry == parse(expiryDateStr)
        daysDiff == daysBetween(e.now, expiry.time, e.tz)
        noun == IF daysDiff = 1 THEN "day" ELSE "days"
    IN IF ~expiry.ok
       THEN [label |-> <<"No Expiry">>, code |-> "none", days |-> Null]
       ELSE IF daysDiff < 0
       THEN [label |-> <<"Expired">>, code |-> "expired", days |-> Num(daysDiff)]
       ELSE IF daysDiff <= 90
       THEN [label |-> <<"Expiring in", daysDiff, noun>>, code |-> "warning",
             days |-> Num(daysDiff)]
       ELSE [label |-> <<"Valid", daysDiff, noun, "left">>, code |-> "good",
             days |-> Num(daysDiff)]

----------------------------------------------------------------------------
\* InventoryRepository: the row <-> item mapping

Unopened == Str(<<"u">>)
Opened == Str(<<"o">>)
OutOfStock == Str(<<"x">>)

\* a reverse mapping that hands the optional text fields over as stored
mapRowToItem_KeepsNull(row) ==
    [id |-> row.id,
     category |-> OrElse(row.category, EmptyStr),
     itemName |-> row.item_name,
     brand |-> row.brand,
     contentVolume |-> row.content_volume,
     lotNumber |-> row.lot_number,
     dateReceived |-> row.date_received,
     expiryDate |-> OrElse(row.expiry_date, EmptyStr),
     dateOpened |-> row.date_opened,
     status |-> OrElse(row.status, Unopened),
     quantity |-> ToNumber(Coalesce(row.quantity, Num(0))),
     remarks |-> row.remarks]

mapRowToItem(row) ==
    [id |-> row.id,
     category |-> OrElse(row.category, EmptyStr),
     itemName |-> row.item_name,
     brand |-> OrElse(row.brand, EmptyStr),
     contentVolume |-> OrElse(row.content_volume, EmptyStr),
     lotNumber |-> OrElse(row.lot_number, EmptyStr),
     dateReceived |-> OrElse(row.date_received, EmptyStr),
     expiryDate |-> OrElse(row.expiry_date, EmptyStr),
     dateOpened |-> OrElse(row.date_opened, EmptyStr),
     status |-> OrElse(row.status, Unopened),
     quantity |-> ToNumber(Coalesce(row.quantity, Num(0))),
     remarks |-> OrElse(row.remarks, EmptyStr)]

mapItemToRow(item) ==
    [id |-> item.id,
     category |-> OrElse(item.category, Null),
     item_name |-> item.itemName,
     brand |-> OrElse(item.brand, Null),
     content_volume |-> OrElse(item.contentVolume, Null),
     lot_number |-> OrElse(item.lotNumber, Null),
     date_received |-> OrElse(item.dateReceived, Null),
     expiry_date |-> OrElse(item.expiryDate, Null),
     date_opened |-> OrElse(item.dateOpened, Null),
     status |-> OrElse(item.status, Unopened),
     quantity |-> ToNumber(Coalesce(item.quantity, Num(0))),
     remarks |-> OrElse(item.remarks, Null)]

----------------------------------------------------------------------------
\* InventoryService

\* `itm-${Date.now()}-${Math.random()...}`: the k-th generated id
GeneratedId(k) == Str(<<"g", Digits[k + 1]>>)

\* the payloads' fields a form may leave out read as undefined
Field(payload, name) == IF name \in DOMAIN payload THEN payload[name] ELSE Undefined

createItem(payload, fresh) ==
    [id |-> OrElse(Field(payload, "id"), fresh),
     category |-> Field(payload, "category"),
     itemName |-> Field(payload, "itemName"),
     brand |-> OrElse(Field(payload, "brand"), EmptyStr),
     contentVolume |-> OrElse(Field(payload, "contentVolume"), EmptyStr),
     lotNumber |-> OrElse(Field(payload, "lotNumber"), EmptyStr),
     dateReceived |-> OrElse(Field(payload, "dateReceived"), EmptyStr),
     expiryDate |-> OrElse(Field(payload, "expiryDate"), EmptyStr),
     dateOpened |-> OrElse(Field(payload, "dateOpened"), EmptyStr),
     status |-> OrElse(Field(payload, "status"), Unopened),
     quantity |-> ToNumber(Coalesce(Field(payload, "quantity"), Num(0))),
     remarks |-> OrElse(Field(payload, "remarks"), EmptyStr)]

ErrCategory == "Category is required"
ErrItemName == "Item Name is required"
ErrExpiryDate == "Expiry Date is required"
ErrNumber == "Quantity must be a number"
ErrNegative == "Quantity cannot be negative"

\* a validate with no rule against a negative quantity
validate_AllowsNegative(item) ==
    (IF ~Truthy(item.category) THEN <<ErrCategory>> ELSE <<>>)
    \o (IF ~Truthy(item.itemName) THEN <<ErrItemName>> ELSE <<>>)
    \o (IF ~Truthy(item.expiryDate) THEN <<ErrExpiryDate>> ELSE <<>>)
    \o (IF LooseNull(item.quantity) \/ NumberIsNaN(item.quantity)
        THEN <<ErrNumber>> ELSE <<>>)

validate(item) ==
    (IF ~Truthy(item.category) THEN <<ErrCategory>> ELSE <<>>)
    \o (IF ~Truthy(item.itemName) THEN <<ErrItemName>> ELSE <<>>)
    \o (IF ~Truthy(item.expiryDate) THEN <<ErrExpiryDate>> ELSE <<>>)
    \o (IF LooseNull(item.quantity) \/ NumberIsNaN(item.quantity)
        THEN <<ErrNumber>> ELSE <<>>)
    \o (IF LessThan(item.quantity, 0) THEN <<ErrNegative>> ELSE <<>>)

\* what the search looks through: the truthy text fields joined by spaces
haystack(i) ==
    LET fields == <<i.category, i.itemName, i.brand, i.contentVolume, i.lotNumber, i.remarks>>
        kept == SelectSeq(fields, Truthy)
    IN toLowerCase(join([k \in 1..Len(kept) |-> kept[k].s]))

\* a low-stock test that leaves out the threshold itself
passes_LowBelowTwo(i, f, e) ==
    IF Truthy(f.category) /\ i.category # f.category THEN FALSE
    ELSE IF Truthy(f.status) /\ i.status # f.status THEN FALSE
    ELSE IF Truthy(f.search) /\ ~includes(haystack(i), toLowerCase(f.search.s)) THEN FALSE
    ELSE LET expInfo == classifyExpiry(i.expiryDate, e)
         IN IF f.expiry = "expired" /\ expInfo.code # "expired" THEN FALSE
            ELSE IF f.expiry = "3months" /\ expInfo.code # "warning" THEN FALSE
            ELSE IF f.expiry = "good" /\ expInfo.code # "good" THEN FALSE
            ELSE IF f.lowStock = "low" /\ ~AtMost(i.quantity, 1) THEN FALSE
            ELSE TRUE

\* the callback of items.filter in InventoryService.filter
passes(i, f, e) ==
    IF Truthy(f.category) /\ i.category # f.category THEN FALSE
    ELSE IF Truthy(f.status) /\ i.status # f.status THEN FALSE
    ELSE IF Truthy(f.search) /\ ~includes(haystack(i), toLowerCase(f.search.s)) THEN FALSE
    ELSE LET expInfo == classifyExpiry(i.expiryDate, e)
         IN IF f.expiry = "expired" /\ expInfo.code # "expired" THEN FALSE
            ELSE IF f.expiry = "3months" /\ expInfo.code # "warning" THEN FALSE
            ELSE IF f.expiry = "good" /\ expInfo.code # "good" THEN FALSE
            ELSE IF f.lowStock = "low" /\ ~AtMost(i.quantity, 2) THEN FALSE
            ELSE TRUE

filter(list, f, e) ==
    LET keep(i) == passes(i, f, e) IN SelectSeq(list, keep)

\* sortField.toLowerCase().includes('date'), over the names of an item's fields
IsDateField(field) == field \in {"dateReceived", "expiryDate", "dateOpened"}

\* a[sortField]
Get(a, field) == IF field \in DOMAIN a THEN a[field] ELSE Undefined

\* a comparator that takes no notice of the direction
compare_IgnoresDirection(a, b, field, direction) ==
    LET av == IF field = "quantity" THEN ToNumber(Coalesce(Get(a, field), Num(0)))
              ELSE Get(a, field)
        bv == IF field = "quantity" THEN ToNumber(Coalesce(Get(b, field), Num(0)))
              ELSE Get(b, field)
        at == IF parse(av).ok THEN parse(av).time ELSE 0
        bt == IF parse(bv).ok THEN parse(bv).time ELSE 0
    IN IF IsDateField(field)
       THEN (IF at = bt THEN 0 ELSE IF at > bt THEN 1 ELSE 0 - 1)
       ELSE IF StrictEq(av, bv) THEN 0
       ELSE IF Greater(av, bv) THEN 1 ELSE 0 - 1

\* the comparator InventoryService.sort hands to Array.prototype.sort
compare(a, b, field, direction) ==
    LET dir == IF direction = "desc" THEN 0 - 1 ELSE 1
        av0 == Get(a, field)
        bv0 == Get(b, field)
        av1 == IF field = "quantity" THEN ToNumber(Coalesce(av0, Num(0))) ELSE av0
        bv1 == IF field = "quantity" THEN ToNumber(Coalesce(bv0, Num(0))) ELSE bv0
        ad == parse(av1)
        bd == parse(bv1)
        at == IF ad.ok THEN ad.time ELSE 0
        bt == IF bd.ok THEN bd.time ELSE 0
        av == IF av1.t = "str" /\ av1.s # <<"#">> THEN Str(toLowerCase(av1.s)) ELSE av1
        bv == IF bv1.t = "str" /\ bv1.s # <<"#">> THEN Str(toLowerCase(bv1.s)) ELSE bv1
    IN IF IsDateField(field)
       THEN (IF at = bt THEN 0 ELSE IF at > bt THEN dir ELSE 0 - dir)
       ELSE IF StrictEq(av, bv) THEN 0
       ELSE IF Greater(av, bv) THEN dir ELSE 0 - dir

\* Array.prototype.sort is stable: x goes after the last element that is not
\* greater than it
RECURSIVE insert(_, _, _, _)
insert(sorted, x, field, direction) ==
    IF sorted = <<>> THEN <<x>>
    ELSE IF compare(sorted[Len(sorted)], x, field, direction) <= 0
         THEN Append(sorted, x)
         ELSE Append(insert(SubSeq(sorted, 1, Len(sorted) - 1), x, field, direction),
                     sorted[Len(sorted)])

RECURSIVE stableSort(_, _, _)
stableSort(list, field, direction) ==
    IF list = <<>> THEN <<>>
    ELSE insert(stableSort(SubSeq(list, 1, Len(list) - 1), field, direction),
                list[Len(list)], field, direction)

sort(list, field, direction) ==
    IF field = "" THEN list ELSE stableSort(list, field, direction)

Count(list, P(_)) == Len(SelectSeq(list, P))

computeAlerts(list, e) ==
    LET isExpired(i) == classifyExpiry(i.expiryDate, e).code = "expired"
        isWarning(i) == classifyExpiry(i.expiryDate, e).code = "warning"
        isOut(i) == i.status = OutOfStock
        isZero(i) == StrictEq(i.quantity, Num(0))
    IN [expSoon |-> Count(list, isWarning),
        expired |-> Count(list, isExpired),
        outOfStock |-> Count(list, isOut),
        zeroQty |-> Count(list, isZero)]

----------------------------------------------------------------------------
\* DateUtils.format and the cells the UI shows

\* DateUtils.format: '' when unparseable, else DD/MM/YYYY of the local day the
\* instant falls on, written Str(<<"/">>) with n the local day number
format(dateStr, e) ==
    LET d == parse(dateStr)
    IN IF ~d.ok THEN EmptyStr
       ELSE [t |-> "str", n |-> (d.time + e.tz) \div HoursPerDay, s |-> <<"/">>]

RECURSIVE NatToChars(_)
NatToChars(n) ==
    IF n < 10 THEN <<Digits[n + 1]>>
    ELSE NatToChars(n \div 10) \o <<Digits[(n % 10) + 1]>>

\* String(v) of a number
String(v) ==
    IF v.t = "nan" THEN Str(<<"N", "a", "N">>)
    ELSE IF v.n < 0 THEN Str(<<"-">> \o NatToChars(0 - v.n))
    ELSE Str(NatToChars(v.n))

\* the <tr> renderTable builds for an item: its cells and the id on its buttons
tableRow(item, e) ==
    [id |-> item.id,
     cells |-> <<OrElse(item.category, EmptyStr), item.itemName,
                 OrElse(item.brand, EmptyStr), OrElse(item.contentVolume, EmptyStr),
                 OrElse(item.lotNumber, EmptyStr), format(item.dateReceived, e),
                 format(item.expiryDate, e), item.status, String(item.quantity),
                 classifyExpiry(item.expiryDate, e).label>>]

renderTable(list, f, field, direction, e) ==
    LET sorted == sort(filter(list, f, e), field, direction)
    IN [k \in 1..Len(sorted) |-> tableRow(sorted[k], e)]

\* what renderAlerts shows: the tallies, the out-of-stock / zero-quantity
\* total and the item count of the KPI cards
renderAlerts(list, e) ==
    LET alerts == computeAlerts(list, e)
    IN [expired |-> alerts.expired,
        expSoon |-> alerts.expSoon,
        totalOut |-> alerts.outOfStock + alerts.zeroQty,
        total |-> Len(list)]

\* the line exportCsv writes for an item (remarks hold no line breaks here)
csvRow(item, e) ==
    <<item.category, item.itemName, OrElse(item.brand, EmptyStr),
      OrElse(item.contentVolume, EmptyStr), OrElse(item.lotNumber, EmptyStr),
      format(item.dateReceived, e), format(item.expiryDate, e),
      format(item.dateOpened, e), item.status, String(item.quantity),
      OrElse(item.remarks, EmptyStr), classifyExpiry(item.expiryDate, e).label>>

\* an export that leaves out the sort
csvRows_Unsorted(list, f, field, direction, e) ==
    LET kept == filter(list, f, e)
    IN [k \in 1..Len(kept) |-> csvRow(kept[k], e)]

csvRows(list, f, field, direction, e) ==
    LET sorted == sort(filter(list, f, e), field, direction)
    IN [k \in 1..Len(sorted) |-> csvRow(sorted[k], e)]

----------------------------------------------------------------------------
\* The remote table and the Repository calls

\* what one request to the remote table can come to: served, answered with
\* { error }, or the client throwing
Outcomes == {"ok", "error", "throw"}

\* PostgreSQL's ascending order of expiry_date: nulls last
Before(r1, r2) ==
    /\ r1.expiry_date.t = "str"
    /\ (r2.expiry_date.t # "str" \/ r1.expiry_date.n < r2.expiry_date.n)

\* select('*').order('expiry_date', { ascending: true }): every order of the
\* rows that respects expiry_date; rows with equal dates come in any order
Selected(table) ==
    LET n == Cardinality(table)
    IN {q \in [1..n -> table] :
          /\ \A i, j \in 1..n : i # j => q[i] # q[j]
          /\ \A i, j \in 1..n : i < j => ~Before(q[j], q[i])}

\* an upsert that inserts and never replaces
Upserted_InsertOnly(table, row) == table \cup {row}

\* upsert(row): insert, or replace the row with the same primary key
Upserted(table, row) == {r \in table : r.id # row.id} \cup {row}

\* a delete whose filter is inverted
Deleted_Inverted(table, id) == {r \in table : r.id = id}

\* delete().eq('id', id)
Deleted(table, id) == {r \in table : r.id # id}

\* InventoryRepository.load once the request has come to `outcome` with `data`:
\* what the call gives its caller
load(outcome, data) ==
    IF outcome = "ok"
    THEN [raised |-> FALSE, value |-> [k \in 1..Len(data) |-> mapRowToItem(data[k])]]
    ELSE [raised |-> FALSE, value |-> <<>>]

\* a write whose exception ends the call with [] instead of going on to load()
afterWrite_GiveUp(outcome) == IF outcome = "throw" THEN "loaded" ELSE "load"

\* the try/catch around the write of upsert and remove: whatever the write came
\* to, the call goes on to load()
afterWrite(outcome) == "load"

\* a call of InventoryRepository.upsert or remove in flight
\* (w, l: whether its write and its select were served; hit: whether the table
\* held a row with its id when the write came; quiet: no other call's write has
\* been served since its own)
Call(kind, arg) ==
    [kind |-> kind, arg |-> arg, phase |-> "write", w |-> TRUE, l |-> TRUE,
     hit |-> FALSE, quiet |-> TRUE, ret |-> [raised |-> FALSE, value |-> <<>>]]

----------------------------------------------------------------------------
\* Bounds and the values the forms are filled with

MaxNew == 1       \* ids createItem generates in one behaviour
MaxPending == 2   \* Repository calls in flight at once

Chemistry == Str(<<"C", "h">>)
Hematology == Str(<<"H", "a">>)
Glucose == Str(<<"G", "l", "u">>)
Albumin == Str(<<"A", "l", "b">>)

\* the hour the page runs at: 02:00 UTC of day 100
Now == 100 * HoursPerDay + 2

\* browsers: west of Greenwich, east of it, and one whose page has no
\* window.supabaseClient
Browsers ==
    {[now |-> Now, tz |-> 0 - 5, client |-> TRUE],
     [now |-> Now, tz |-> 8, client |-> TRUE],
     [now |-> Now, tz |-> 8, client |-> FALSE]}

Seed(id, name, expiry, status, quantity) ==
    mapItemToRow(createItem(
        [id |-> id, category |-> Chemistry, itemName |-> name, expiryDate |-> expiry,
         status |-> status, quantity |-> quantity], EmptyStr))

SeedA == Seed(Str(<<"a">>), Glucose, IsoDate(99), Opened, Num(0))
SeedB == Seed(Str(<<"b">>), Albumin, IsoDate(300), Unopened, Num(5))

InitTables == {{}, {SeedA}}

\* what the add form and the edit form are submitted with (FormData values
\* are strings): a complete form, one with a negative quantity, one with
\* no category and a quantity that is no number, one with no item name and
\* one with no expiry date
FormBase ==
    [category |-> Chemistry, itemName |-> Glucose, brand |-> EmptyStr,
     contentVolume |-> EmptyStr, lotNumber |-> EmptyStr, dateReceived |-> EmptyStr,
     expiryDate |-> IsoDate(99), status |-> Unopened, quantity |-> Str(<<"3">>)]

FormInputs ==
    {FormBase,
     [FormBase EXCEPT !.quantity = Str(<<"-", "1">>)],
     [FormBase EXCEPT !.category = EmptyStr, !.quantity = Str(<<"a", "b", "c">>)],
     [FormBase EXCEPT !.itemName = EmptyStr],
     [FormBase EXCEPT !.expiryDate = EmptyStr]}

DefaultFilters ==
    [search |-> EmptyStr, category |-> EmptyStr, status |-> EmptyStr,
     expiry |-> "", lowStock |-> ""]

NoProbe == [fn |-> "none", in |-> <<>>, out |-> <<>>]

----------------------------------------------------------------------------------------------------------------------------------------------------
\* UI

\* render(): renderTable() and renderAlerts() over the new state.items
Render(list) ==
    /\ tableBody' = renderTable(list, filters, sortField, sortDirection, env)
    /\ alertSummary' = renderAlerts(list, env)

\* a check that lets a single message through
rejected_OffByOne(errors) == Len(errors) > 1

\* if (errors.length) { alert(...); return; }
rejected(errors) == Len(errors) # 0

\* the payload handleFormSubmit builds from the add form
addPayload(in) ==
    [category |-> in.category, itemName |-> in.itemName, brand |-> in.brand,
     contentVolume |-> in.contentVolume, lotNumber |-> in.lotNumber,
     dateReceived |-> in.dateReceived, expiryDate |-> in.expiryDate,
     status |-> in.status, quantity |-> ToNumber(in.quantity), remarks |-> EmptyStr]

\* the payload handleEditSubmit builds from the edit form
editPayload(id, in) ==
    [id |-> id, category |-> OrElse(in.category, EmptyStr), itemName |-> in.itemName,
     brand |-> in.brand, contentVolume |-> in.contentVolume,
     lotNumber |-> in.lotNumber, dateReceived |-> in.dateReceived,
     expiryDate |-> in.expiryDate, status |-> in.status,
     quantity |-> ToNumber(in.quantity), remarks |-> EmptyStr]

\* state.items = await InventoryRepository.upsert(item) / remove(id), up to the
\* await: without a client the call gives [] at once and the handler goes on
\* to render; with one the request is sent and the handler is suspended
Await(kind, arg) ==
    IF ~env.client
    THEN /\ items' = <<>>
         /\ editId' = IF kind = "edit" THEN EmptyStr ELSE editId
         /\ Render(<<>>)
         /\ UNCHANGED <<rows, ops>>
    ELSE /\ Len(ops) < MaxPending
         /\ ops' = Append(ops, Call(kind, arg))
         /\ UNCHANGED <<rows, items, editId, tableBody, alertSummary>>

\* the submit handlers once the payload is built: the alert stays on screen,
\* and the page stands still, until it is dismissed
Submit(kind, payload, generated) ==
    LET item == createItem(payload, GeneratedId(nextId))
        errors == validate(item)
    IN /\ IF rejected(errors)
          THEN /\ alertMsg' = errors
               /\ UNCHANGED <<rows, items, ops, nextId, editId, tableBody, alertSummary>>
          ELSE /\ Await(kind, item)
               /\ nextId' = IF generated THEN nextId + 1 ELSE nextId
               /\ UNCHANGED alertMsg
       /\ UNCHANGED <<env, filters, sortField, sortDirection, download, probe>>

handleFormSubmit(in) ==
    /\ alertMsg = <<>>
    /\ nextId < MaxNew
    /\ Submit("add", addPayload(in), TRUE)

dismissAlert ==
    /\ alertMsg # <<>>
    /\ alertMsg' = <<>>
    /\ UNCHANGED <<env, rows, items, filters, sortField, sortDirection, ops, nextId,
                   editId, tableBody, alertSummary, download, probe>>

openEditModal(id) ==
    /\ alertMsg = <<>>
    /\ \E k \in 1..Len(items) : items[k].id = id
    /\ editId' = id
    /\ UNCHANGED <<env, rows, items, filters, sortField, sortDirection, ops, nextId,
                   alertMsg, tableBody, alertSummary, download, probe>>

closeEditModal ==
    /\ alertMsg = <<>>
    /\ editId # EmptyStr
    /\ editId' = EmptyStr
    /\ UNCHANGED <<env, rows, items, filters, sortField, sortDirection, ops, nextId,
                   alertMsg, tableBody, alertSummary, download, probe>>

handleEditSubmit(in) ==
    /\ alertMsg = <<>>
    /\ editId # EmptyStr
    /\ Submit("edit", editPayload(editId, in), FALSE)

handleDelete(id, confirmed) ==
    /\ alertMsg = <<>>
    /\ IF ~confirmed
       THEN UNCHANGED <<rows, items, ops, editId, tableBody, alertSummary>>
       ELSE Await("delete", id)
    /\ UNCHANGED <<env, filters, sortField, sortDirection, nextId, alertMsg,
                   download, probe>>

\* the primary key a call's write is about
TargetId(o) == IF o.kind = "delete" THEN o.arg ELSE o.arg.id

\* the remote table serves (or fails) the write of call k
Write(k, outcome) ==
    /\ ops[k].phase = "write"
    /\ rows' = IF outcome # "ok" THEN rows
               ELSE IF ops[k].kind = "delete" THEN Deleted(rows, ops[k].arg)
               ELSE Upserted(rows, mapItemToRow(ops[k].arg))
    /\ ops' = [j \in 1..Len(ops) |->
                 IF j = k
                 THEN [ops[j] EXCEPT !.phase = afterWrite(outcome), !.w = (outcome = "ok"),
                                     !.hit = (\E r \in rows : r.id = TargetId(ops[j]))]
                 ELSE IF outcome = "ok" /\ ops[j].phase = "load"
                      THEN [ops[j] EXCEPT !.quiet = FALSE]
                      ELSE ops[j]]
    /\ UNCHANGED <<env, items, filters, sortField, sortDirection, nextId, editId,
                   alertMsg, tableBody, alertSummary, download, probe>>

\* the remote table serves (or fails) the select of call k's load()
Load(k, outcome) ==
    /\ ops[k].phase = "load"
    /\ \E data \in Selected(rows) :
          ops' = [ops EXCEPT ![k].phase = "loaded", ![k].l = (outcome = "ok"),
                             ![k].ret = load(outcome, data)]
    /\ UNCHANGED <<env, rows, items, filters, sortField, sortDirection, nextId, editId,
                   alertMsg, tableBody, alertSummary, download, probe>>

Without(list, k) == [j \in 1..(Len(list) - 1) |-> IF j < k THEN list[j] ELSE list[j + 1]]

\* the response of call k arrives and its handler resumes after the await:
\* state.items = <what the call gave>, the modal closes, render()
Resume(k) ==
    /\ alertMsg = <<>>
    /\ ops[k].phase = "loaded"
    /\ ops' = Without(ops, k)
    /\ IF ops[k].ret.raised
       THEN UNCHANGED <<items, editId, tableBody, alertSummary>>
       ELSE /\ items' = ops[k].ret.value
            /\ editId' = IF ops[k].kind = "edit" THEN EmptyStr ELSE editId
            /\ Render(ops[k].ret.value)
    /\ UNCHANGED <<env, rows, filters, sortField, sortDirection, nextId, alertMsg,
                   download, probe>>

TableIds == {tableBody[k].id : k \in 1..Len(tableBody)}

\* UI.init(): the first load, then the first render
Init ==
    /\ env \in {e \in Browsers : e.tz < 0 \/ ~e.client}
    /\ rows \in InitTables
    /\ \E outcome \in Outcomes, data \in Selected(rows) :
          items = IF env.client THEN load(outcome, data).value ELSE <<>>
    /\ filters = DefaultFilters
    /\ sortField = "expiryDate"
    /\ sortDirection = "asc"
    /\ ops = <<>>
    /\ nextId = 0
    /\ editId = EmptyStr
    /\ alertMsg = <<>>
    /\ tableBody = renderTable(items, filters, sortField, sortDirection, env)
    /\ alertSummary = renderAlerts(items, env)
    /\ download = <<>>
    /\ probe = NoProbe

Next ==
    \/ \E in \in FormInputs : handleFormSubmit(in)
    \/ dismissAlert
    \/ \E id \in TableIds : openEditModal(id)
    \/ closeEditModal
    \/ \E in \in FormInputs : handleEditSubmit(in)
    \/ \E id \in TableIds, confirmed \in BOOLEAN : handleDelete(id, confirmed)
    \/ \E k \in 1..Len(ops), outcome \in Outcomes : Write(k, outcome)
    \/ \E k \in 1..Len(ops), outcome \in Outcomes : Load(k, outcome)
    \/ \E k \in 1..Len(ops) : Resume(k)

Spec == Init /\ [][Next]_vars

----------------------------------------------------------------------------
\* Properties of the handlers and the Repository calls

ItemSet(list) == {list[k] : k \in 1..Len(list)}
Mapped(table) == {mapRowToItem(r) : r \in table}

\* `list` is the table `table`, row for row
Mirrors(list, table) == Len(list) = Cardinality(table) /\ ItemSet(list) = Mapped(table)

\* the step serves (or fails) the write of call k
WriteServed(k) ==
    /\ Len(ops') = Len(ops)
    /\ ops[k].phase = "write"
    /\ ops'[k].phase # "write"

\* the step serves (or fails) the select of call k
LoadServed(k) ==
    /\ Len(ops') = Len(ops)
    /\ ops[k].phase = "load"
    /\ ops'[k].phase = "loaded"

\* the step resumes the handler of call k
Resumed(k) ==
    /\ Len(ops') < Len(ops)
    /\ ops[k].phase = "loaded"
    /\ ops' = Without(ops, k)

\* C1: a submit whose validation fails calls no upsert and changes neither the
\* table nor state.items; upsert is called only with an item validate has no
\* message for, and state.items becomes what the call returns.
C1_ValidationGatesUpsert ==
    [][/\ (alertMsg = <<>> /\ alertMsg' # <<>>) => UNCHANGED <<rows, items, ops>>
       /\ Len(ops') > Len(ops) =>
            /\ alertMsg' = <<>>
            /\ ops'[Len(ops')].kind \in {"add", "edit"} =>
                   validate(ops'[Len(ops')].arg) = <<>>
       /\ (items' # items /\ env.client) => Len(ops') < Len(ops)
       /\ Len(ops') < Len(ops) =>
            \E k \in 1..Len(ops) : Resumed(k) /\ items' = ops[k].ret.value]_vars

\* a rejected submit, with rows in the table, items on the page and a call in flight
C1_Witness ==
    /\ alertMsg # <<>>
    /\ rows # {}
    /\ items # <<>>
    /\ ops # <<>>

\* C2: what a call's load() gives is the table as it stands when the select is
\* served, whatever the write and the select came to, and state.items becomes it.
C2_ItemsEqualBackend ==
    [][\A k \in 1..Len(ops) :
          /\ LoadServed(k) => Mirrors(ops'[k].ret.value, rows)
          /\ Resumed(k) => items' = ops[k].ret.value]_vars

\* C3: once no call is in flight, a state.items that came from a served load is
\* the table as the last write left it.
C3_NoStaleSnapshot ==
    (ops = <<>> /\ items # <<>>) => Mirrors(items, rows)

\* the items of `list` with the id `id`
WithId(list, id) == {k \in 1..Len(list) : list[k].id = id}

\* C4: a served upsert leaves exactly one row with the item's id, that row
\* reads back as the submitted item, and the rows of other ids are as they
\* were; the call always goes on to load(), and a served load gives the whole
\* table, in which (no other write having come between) exactly one item has
\* the id and it is the submitted item.
C4_UpsertReplacesById ==
    [][\A k \in 1..Len(ops) :
          ops[k].kind \in {"add", "edit"} =>
            LET item == ops[k].arg IN
            /\ WriteServed(k) =>
                 /\ ops'[k].phase = "load"
                 /\ ops'[k].w =>
                      /\ Cardinality({r \in rows' : r.id = item.id}) = 1
                      /\ \A r \in rows' : r.id = item.id => mapRowToItem(r) = item
                      /\ {r \in rows' : r.id # item.id} = {r \in rows : r.id # item.id}
            /\ (LoadServed(k) /\ ops[k].w /\ ops'[k].l) =>
                 LET got == ops'[k].ret.value IN
                 /\ Mirrors(got, rows)
                 /\ ops[k].quiet =>
                      /\ Cardinality(WithId(got, item.id)) = 1
                      /\ \A j \in WithId(got, item.id) : got[j] = item]_vars

\* an edit that replaced a row, served and loaded with another row in the table
C4_Witness ==
    \E k \in 1..Len(ops) :
        /\ ops[k].kind = "edit"
        /\ ops[k].phase = "loaded"
        /\ ops[k].w /\ ops[k].l /\ ops[k].hit /\ ops[k].quiet
        /\ Len(ops[k].ret.value) = 2
        /\ mapItemToRow(ops[k].arg) \in rows
        /\ SeedA \notin rows

\* C5: a served delete leaves no row with the id and the other rows as they
\* were, and leaves the table as it was when no row has the id; the call goes
\* on to load(), and a served load gives the whole table, in which (no other
\* write having come between) no item has the id.
C5_RemoveDeletesById ==
    [][\A k \in 1..Len(ops) :
          ops[k].kind = "delete" =>
            LET id == ops[k].arg IN
            /\ WriteServed(k) =>
                 /\ ops'[k].phase = "load"
                 /\ ops'[k].w =>
                      /\ \A r \in rows' : r.id # id
                      /\ rows' = {r \in rows : r.id # id}
                      /\ (~ops'[k].hit) => rows' = rows
            /\ (LoadServed(k) /\ ops[k].w /\ ops'[k].l) =>
                 LET got == ops'[k].ret.value IN
                 /\ Mirrors(got, rows)
                 /\ ops[k].quiet => WithId(got, id) = {}]_vars

\* a delete of an id the table no longer held, served without error and loaded
\* with a row left in the table
C5_Witness ==
    \E k \in 1..Len(ops) :
        /\ ops[k].kind = "delete"
        /\ ops[k].phase = "loaded"
        /\ ops[k].w /\ ops[k].l /\ ~ops[k].hit /\ ops[k].quiet
        /\ ops[k].ret.value # <<>>

\* C6: no call raises; a failed select gives []; a failed write leaves the
\* table as it was and the call still goes on to load(), whose result - the
\* table as it stands, when the select is served - is what the handler gets.
C6_FailuresDegrade ==
    [][\A k \in 1..Len(ops) :
          /\ WriteServed(k) =>
               /\ ops'[k].phase = "load"
               /\ (~ops'[k].w) => rows' = rows
          /\ LoadServed(k) =>
               /\ ~ops'[k].ret.raised
               /\ (~ops'[k].l) => ops'[k].ret.value = <<>>
               /\ (~ops[k].w /\ ops'[k].l) => Mirrors(ops'[k].ret.value, rows)
          /\ Resumed(k) => items' = ops[k].ret.value]_vars

\* a call whose write failed and whose load then gave the rows still there
C6_Witness ==
    \E k \in 1..Len(ops) :
        /\ ops[k].phase = "loaded"
        /\ ~ops[k].w /\ ops[k].l
        /\ ops[k].ret.value # <<>>
        /\ Mirrors(ops[k].ret.value, rows)

----------------------------------------------------------------------------
\* The view: filters, sorting and export over a loaded collection

SeedC == Seed(Str(<<"c">>), Str(<<"B", "a">>), IsoDate(150), OutOfStock, Num(2))

ViewTables == SUBSET {SeedA, SeedB, SeedC}

\* `${baseSearch} ${topSearch}`.trim() of two trimmed inputs
searchTerm(baseSearch, topSearch) ==
    IF baseSearch = <<>> THEN Str(topSearch)
    ELSE IF topSearch = <<>> THEN Str(baseSearch)
    ELSE Str(baseSearch \o <<" ">> \o topSearch)

\* what the filter controls can be set to
FilterInputs ==
    [searchInput : {<<>>, <<"g", "l">>},
     topSearchInput : {<<>>, <<"a">>},
     filterCategory : {EmptyStr, Chemistry},
     filterStatus : {EmptyStr},
     filterExpiry : {"", "expired", "3months"},
     filterLowStock : {"", "low"}]

\* the data-sort of the column headers
SortColumns == {"expiryDate", "quantity", "itemName"}

handleFilters(in) ==
    /\ alertMsg = <<>>
    /\ filters' = [search |-> searchTerm(in.searchInput, in.topSearchInput),
                   category |-> in.filterCategory,
                   status |-> in.filterStatus,
                   expiry |-> in.filterExpiry,
                   lowStock |-> in.filterLowStock]
    /\ tableBody' = renderTable(items, filters', sortField, sortDirection, env)
    /\ alertSummary' = renderAlerts(items, env)
    /\ UNCHANGED <<env, rows, items, sortField, sortDirection, ops, nextId, editId,
                   alertMsg, download, probe>>

handleSortClick(field) ==
    /\ alertMsg = <<>>
    /\ IF sortField = field
       THEN /\ sortDirection' = IF sortDirection = "asc" THEN "desc" ELSE "asc"
            /\ UNCHANGED sortField
       ELSE /\ sortField' = field
            /\ sortDirection' = "asc"
    /\ tableBody' = renderTable(items, filters, sortField', sortDirection', env)
    /\ UNCHANGED <<env, rows, items, filters, ops, nextId, editId, alertMsg,
                   alertSummary, download, probe>>

NothingToExport == <<"No inventory data to export for the current view.">>

exportCsv ==
    /\ alertMsg = <<>>
    /\ LET lines == csvRows(items, filters, sortField, sortDirection, env)
       IN IF Len(lines) = 0
          THEN alertMsg' = NothingToExport /\ UNCHANGED download
          ELSE download' = lines /\ UNCHANGED alertMsg
    /\ UNCHANGED <<env, rows, items, filters, sortField, sortDirection, ops, nextId,
                   editId, tableBody, alertSummary, probe>>

InitView ==
    /\ env \in {e \in Browsers : e.client}
    /\ rows \in ViewTables
    /\ \E data \in Selected(rows) : items = load("ok", data).value
    /\ filters = DefaultFilters
    /\ sortField = "expiryDate"
    /\ sortDirection = "asc"
    /\ ops = <<>>
    /\ nextId = 0
    /\ editId = EmptyStr
    /\ alertMsg = <<>>
    /\ tableBody = renderTable(items, filters, sortField, sortDirection, env)
    /\ alertSummary = renderAlerts(items, env)
    /\ download = <<>>
    /\ probe = NoProbe

NextView ==
    \/ \E in \in FilterInputs : handleFilters(in)
    \/ \E field \in SortColumns : handleSortClick(field)
    \/ exportCsv
    \/ dismissAlert

SpecView == InitView /\ [][NextView]_vars

\* the columns the table and the file share: the file has Date Opened and
\* Remarks besides
Shared(line) ==
    <<line[1], line[2], line[3], line[4], line[5], line[6], line[7], line[9],
      line[10], line[12]>>

\* the table shows, row for row and in order, what `lines` holds
Shows(table, lines) ==
    /\ Len(table) = Len(lines)
    /\ \A k \in 1..Len(lines) : table[k].cells = Shared(lines[k])

Tally(list, P(_)) == Cardinality({k \in 1..Len(list) : P(list[k])})

IsExpired(i) == classifyExpiry(i.expiryDate, env).code = "expired"
IsExpiringSoon(i) == classifyExpiry(i.expiryDate, env).code = "warning"
IsOutOrZero(i) == i.status = OutOfStock \/ i.quantity = Num(0)
IsOutAndZero(i) == i.status = OutOfStock /\ i.quantity = Num(0)

\* the tallies renderAlerts would show if it counted the items of `list`
TalliesOver(list) ==
    /\ alertSummary.expired = Tally(list, IsExpired)
    /\ alertSummary.expSoon = Tally(list, IsExpiringSoon)
    /\ alertSummary.totalOut = Tally(list, IsOutOrZero) + Tally(list, IsOutAndZero)

\* the view: the items that pass the filters, in the order of the sort
View == sort(filter(items, filters, env), sortField, sortDirection)

\* C7 as claimed: the table, the alerts and the export all come from the
\* filtered and sorted view, so the tallies count only the items that pass the
\* filters.
C7_AlertsFollowFilters ==
    TalliesOver(filter(items, filters, env))

\* C7 as amended: the table on screen is always the filtered and sorted view,
\* an export writes exactly the rows on screen in the same order, and the
\* tallies count all of state.items, whatever the filters.
C7_TableAndExportShareView ==
    /\ [](/\ Len(tableBody) = Len(View)
          /\ \A k \in 1..Len(View) : tableBody[k].id = View[k].id
          /\ TalliesOver(items)
          /\ alertSummary.total = Len(items))
    /\ [][download' # download => Shows(tableBody, download')]_vars

\* an export of a sorted view from which the filters have dropped an expired item
C7_Witness ==
    /\ download # <<>>
    /\ Shows(tableBody, download)
    /\ Len(download) >= 2
    /\ Len(download) < Len(items)
    /\ sortDirection = "desc"
    /\ Tally(items, IsExpired) > Tally(filter(items, filters, env), IsExpired)

----------------------------------------------------------------------------
\* The pure functions, called on their own

MaxItems == 2   \* the length of the collections filter is called with

\* the local calendar day the browser is on
LocalDay(e) == (e.now + e.tz) \div HoursPerDay

\* items as validate may be handed them: quantity as a number, NaN, text,
\* null or left out
ValidateInputs ==
    [category : {EmptyStr, Chemistry},
     itemName : {EmptyStr, Glucose},
     expiryDate : {EmptyStr, IsoDate(300)},
     quantity : {Num(0 - 1), Num(0), Num(3), NaN, Str(<<"a", "b", "c">>),
                 Str(<<"-", "1">>), Null, Undefined}]

\* expiry dates around today and the 90-day mark, none, and text that is no date
DateInputs(e) ==
    {IsoDate(LocalDay(e) + k) : k \in {0 - 1, 0, 1, 90, 91}}
        \cup {EmptyStr, Str(<<"x">>), Null}

PoolItem(id, category, name, brand, expiry, status, quantity) ==
    mapRowToItem(mapItemToRow(createItem(
        [id |-> id, category |-> category, itemName |-> name, brand |-> brand,
         expiryDate |-> expiry, status |-> status, quantity |-> quantity], EmptyStr)))

\* the items filter is called with: on either side of every criterion
FilterPool(e) ==
    {PoolItem(Str(<<"a">>), Chemistry, Glucose, EmptyStr, IsoDate(LocalDay(e) - 3), Opened, Num(0)),
     PoolItem(Str(<<"b">>), Chemistry, Albumin, Str(<<"G", "h">>), IsoDate(LocalDay(e) + 30), Unopened, Num(2)),
     PoolItem(Str(<<"c">>), Hematology, Str(<<"B", "a">>), EmptyStr, IsoDate(LocalDay(e) + 200), Unopened, Num(3)),
     PoolItem(Str(<<"d">>), Hematology, Glucose, EmptyStr, IsoDate(LocalDay(e) + 90), OutOfStock, Num(5))}

FilterLists(e) ==
    UNION {[1..n -> FilterPool(e)] : n \in 0..MaxItems}

FilterCriteria ==
    [search : {EmptyStr, Str(<<"G", "L">>), Str(<<"u", " ", "g">>)},
     category : {EmptyStr, Chemistry},
     status : {EmptyStr, Unopened},
     expiry : {"", "expired", "3months", "good", "warning"},
     lowStock : {"", "low"}]

\* one call in a behaviour: the page's state is left alone
Called(fn, in, out) ==
    /\ probe = NoProbe
    /\ probe' = [fn |-> fn, in |-> in, out |-> out]
    /\ UNCHANGED <<env, rows, items, filters, sortField, sortDirection, ops, nextId,
                   editId, alertMsg, tableBody, alertSummary, download>>

callValidate(item) == Called("validate", <<item>>, validate(item))

callClassifyExpiry(dateStr) ==
    Called("classifyExpiry", <<dateStr>>, classifyExpiry(dateStr, env))

callFilter(list, f) == Called("filter", <<list, f>>, filter(list, f, env))

MaxSorted == 3   \* the length of the collections sort is called with

SortItem(id, name, expiry, opened, quantity) ==
    mapRowToItem(mapItemToRow(createItem(
        [id |-> id, category |-> Chemistry, itemName |-> name, expiryDate |-> expiry,
         dateOpened |-> opened, quantity |-> quantity], EmptyStr)))

\* the items sort is called with: quantities 3, 1, 2 and 2; dates before the
\* epoch, on it and after it, no date, and text that is no date
SortPool ==
    {SortItem(Str(<<"a">>), Glucose, IsoDate(0 - 3), EmptyStr, Num(3)),
     SortItem(Str(<<"b">>), Albumin, EmptyStr, Str(<<"x">>), Num(1)),
     SortItem(Str(<<"c">>), Str(<<"g", "l", "u">>), IsoDate(200), IsoDate(0 - 3), Num(2)),
     SortItem(Str(<<"d">>), Str(<<"B", "a">>), IsoDate(0), IsoDate(50), Num(2))}

SortLists == UNION {[1..n -> SortPool] : n \in 0..MaxSorted}

SortFields == SortColumns \cup {"dateOpened", ""}

callSort(list, field, direction) ==
    Called("sort", <<list, field, direction>>, sort(list, field, direction))

\* payloads as createItem may be handed them; undefined is a field left out
RoundTripPayloads ==
    [id : {Undefined, Str(<<"a">>)},
     category : {Undefined, Null, EmptyStr, Chemistry},
     itemName : {EmptyStr, Glucose},
     brand : {Undefined, EmptyStr, Str(<<"G", "h">>)},
     expiryDate : {EmptyStr, IsoDate(300)},
     status : {Undefined, EmptyStr, Opened},
     quantity : {Undefined, Null, Num(0), Num(3), Num(0 - 1), NaN, Str(<<"3">>)}]

\* createItem, then the mapping to a row and back
callRoundTrip(payload) ==
    LET item == createItem(payload, GeneratedId(0))
        row == mapItemToRow(item)
    IN Called("roundTrip", <<payload, item>>, <<row, mapRowToItem(row)>>)

InitPure ==
    /\ env \in {[now |-> Now, tz |-> tz, client |-> TRUE] : tz \in {0 - 5, 0, 8}}
    /\ rows = {}
    /\ items = <<>>
    /\ filters = DefaultFilters
    /\ sortField = "expiryDate"
    /\ sortDirection = "asc"
    /\ ops = <<>>
    /\ nextId = 0
    /\ editId = EmptyStr
    /\ alertMsg = <<>>
    /\ tableBody = <<>>
    /\ alertSummary = renderAlerts(<<>>, env)
    /\ download = <<>>
    /\ probe = NoProbe

\* one call in a behaviour, of any of the functions
NextPure ==
    \/ probe = NoProbe /\ \E item \in ValidateInputs : callValidate(item)
    \/ probe = NoProbe /\ \E dateStr \in DateInputs(env) : callClassifyExpiry(dateStr)
    \/ probe = NoProbe /\ \E list \in FilterLists(env), f \in FilterCriteria :
           callFilter(list, f)
    \/ probe = NoProbe /\ \E list \in SortLists, field \in SortFields,
                              direction \in {"asc", "desc"} :
           callSort(list, field, direction)
    \/ probe = NoProbe /\ \E payload \in RoundTripPayloads : callRoundTrip(payload)

SpecPure == InitPure /\ [][NextPure]_vars

\* a quantity that is a number, or text that reads as one
WellFormedNumber(v) == ~LooseNull(v) /\ ToNumber(v).t = "num"

\* C8: validate gives every violated rule, in the order category, itemName,
\* expiryDate, quantity-numeric, quantity-non-negative; an item with no
\* category, name or expiry date and the quantity 'abc' gets exactly the first
\* four messages.
C8_ValidateReportsEveryRule ==
    probe.fn = "validate" =>
        LET item == probe.in[1] IN
        probe.out =
            (IF item.category = EmptyStr THEN <<ErrCategory>> ELSE <<>>)
            \o (IF item.itemName = EmptyStr THEN <<ErrItemName>> ELSE <<>>)
            \o (IF item.expiryDate = EmptyStr THEN <<ErrExpiryDate>> ELSE <<>>)
            \o (IF ~WellFormedNumber(item.quantity) THEN <<ErrNumber>> ELSE <<>>)
            \o (IF WellFormedNumber(item.quantity) /\ ToNumber(item.quantity).n < 0
                THEN <<ErrNegative>> ELSE <<>>)

\* C9: with d the whole calendar days from today to the expiry date,
\* classifyExpiry gives 'expired' iff d < 0, 'warning' iff 0 <= d <= 90, 'good'
\* iff d > 90, with days = d; and 'none' with days null iff there is no
\* parseable date.
C9_ClassifyByCalendarDays ==
    probe.fn = "classifyExpiry" =>
        LET dateStr == probe.in[1]
            isDate == dateStr.t = "str" /\ dateStr.s = <<"#">>
            d == dateStr.n - LocalDay(env)
        IN IF ~isDate
           THEN probe.out.code = "none" /\ probe.out.days = Null
           ELSE /\ probe.out.days = Num(d)
                /\ probe.out.code = "expired" <=> d < 0
                /\ probe.out.code = "warning" <=> (0 <= d /\ d <= 90)
                /\ probe.out.code = "good" <=> d > 90

\* the items of `list` that `P` holds of, in the order of `list`
Kept(list, P(_)) == SelectSeq(list, P)

\* the criteria other than the expiry bucket
MeetsOthers(i, f) ==
    /\ f.category # EmptyStr => i.category = f.category
    /\ f.status # EmptyStr => i.status = f.status
    /\ f.search # EmptyStr => includes(haystack(i), toLowerCase(f.search.s))
    /\ f.lowStock = "low" => i.quantity.n <= 2

BucketCode(expiry) ==
    CASE expiry = "expired" -> "expired"
      [] expiry = "3months" -> "warning"
      [] expiry = "good" -> "good"

----------------------------------------------------------------------------
\* sort

\* b holds the elements of a, each as many times
IsPermutation(a, b) ==
    /\ Len(a) = Len(b)
    /\ \A k \in 1..Len(a) :
           Cardinality({j \in 1..Len(a) : a[j] = a[k]})
               = Cardinality({j \in 1..Len(b) : b[j] = a[k]})

\* the time sort gives a date: 0, the epoch, when there is none to parse
SortTime(dateStr) == IF parse(dateStr).ok THEN parse(dateStr).time ELSE 0

\* quantities from first to last never go up
QuantityNonIncreasing(list) ==
    \A j \in 1..Len(list), k \in 1..Len(list) :
        j < k => list[j].quantity.n >= list[k].quantity.n

\* C11 as claimed: sort returns a permutation of its input; by quantity
\* descending the quantities never go up; ascending by a date field every item
\* whose date is missing or unparseable stands before every item whose date
\* parses, dates before 1970-01-01 included.
C11_MissingDatesFirst ==
    probe.fn = "sort" =>
        LET list == probe.in[1]
            field == probe.in[2]
            direction == probe.in[3]
            out == probe.out
        IN /\ IsPermutation(list, out)
           /\ (field = "quantity" /\ direction = "desc") => QuantityNonIncreasing(out)
           /\ (IsDateField(field) /\ direction = "asc") =>
                  \A j \in 1..Len(out), k \in 1..Len(out) :
                      (~parse(out[j][field]).ok /\ parse(out[k][field]).ok) => j < k

\* C11 as amended: sort returns a permutation of its input; by quantity
\* descending the quantities never go up; ascending by a date field the items
\* stand in order of time, an item whose date is missing or unparseable
\* counting as 1970-01-01: before every later date, after every earlier one,
\* and, like all items of equal time, in input order among its equals.
C11_MissingDatesAtEpoch ==
    probe.fn = "sort" =>
        LET list == probe.in[1]
            field == probe.in[2]
            direction == probe.in[3]
            out == probe.out
        IN /\ IsPermutation(list, out)
           /\ field = "" => out = list
           /\ (field = "quantity" /\ direction = "desc") => QuantityNonIncreasing(out)
           /\ (IsDateField(field) /\ direction = "asc") =>
                  /\ \A j \in 1..Len(out), k \in 1..Len(out) :
                         j < k => SortTime(out[j][field]) <= SortTime(out[k][field])
                  /\ \A j \in 1..Len(out), k \in 1..Len(out) :
                         (~parse(out[j][field]).ok /\ parse(out[k][field]).ok) =>
                             /\ parse(out[k][field]).time > 0 => j < k
                             /\ parse(out[k][field]).time < 0 => k < j
                  /\ \A j \in 1..Len(list), k \in 1..Len(list) :
                         (j < k /\ list[j] # list[k]
                          /\ SortTime(list[j][field]) = SortTime(list[k][field])) =>
                             \E m \in 1..Len(out), n \in 1..Len(out) :
                                 m < n /\ out[m] = list[j] /\ out[n] = list[k]

\* an ascending sort by expiry date of an item with no date, one that expired
\* before 1970 and one that expires after it: the early one comes out first
C11_Witness ==
    /\ probe.fn = "sort"
    /\ probe.in[2] = "expiryDate"
    /\ probe.in[3] = "asc"
    /\ Len(probe.in[1]) = 3
    /\ probe.in[1][1].expiryDate = EmptyStr
    /\ probe.in[1][2].expiryDate = IsoDate(200)
    /\ probe.in[1][3].expiryDate = IsoDate(0 - 3)
    /\ probe.out = <<probe.in[1][3], probe.in[1][1], probe.in[1][2]>>

----------------------------------------------------------------------------
\* The Item invariants

\* a quantity that is a number and not below 0
NonNegative(v) == v.t = "num" /\ v.n >= 0

ItemInvariant(i) ==
    Truthy(i.itemName) /\ Truthy(i.expiryDate) /\ NonNegative(i.quantity)

RowInvariant(r) ==
    Truthy(r.item_name) /\ Truthy(r.expiry_date) /\ NonNegative(r.quantity)

\* C12: whatever the add form and the edit form are submitted with and
\* whatever is deleted, every item of state.items and every row of the table
\* has an item name, an expiry date and a numeric quantity of 0 or more, and
\* no two items of state.items, and no two rows, have the same id.
C12_ItemInvariantsKept ==
    /\ \A k \in 1..Len(items) : ItemInvariant(items[k])
    /\ \A r \in rows : RowInvariant(r)
    /\ \A j \in 1..Len(items), k \in 1..Len(items) :
           items[j].id = items[k].id => j = k
    /\ \A r1 \in rows, r2 \in rows : r1.id = r2.id => r1 = r2

\* the page after an add and an edit have gone through: the seeded item with
\* the quantity the edit form gave it, beside an item with a generated id
C12_Witness ==
    /\ Len(items) = 2
    /\ Cardinality(rows) = 2
    /\ \E j \in 1..2, k \in 1..2 :
           /\ items[j].id = Str(<<"a">>)
           /\ items[j].quantity = Num(3)
           /\ items[k].id = GeneratedId(0)
    /\ ops = <<>>

----------------------------------------------------------------------------
\* The row <-> item round trip

\* the column a field of an item is stored in
Column(field) ==
    CASE field = "itemName" -> "item_name"
      [] field = "contentVolume" -> "content_volume"
      [] field = "lotNumber" -> "lot_number"
      [] field = "dateReceived" -> "date_received"
      [] field = "expiryDate" -> "expiry_date"
      [] field = "dateOpened" -> "date_opened"
      [] OTHER -> field

\* the fields stored as null when they are empty
NullableFields ==
    {"category", "brand", "contentVolume", "lotNumber", "dateReceived",
     "expiryDate", "dateOpened", "remarks"}

\* the empty strings of an item are null in its row and empty strings again
\* in the item read back
EmptyStoredAsNull(item, row, back) ==
    \A f \in NullableFields :
        item[f] = EmptyStr => (row[Column(f)] = Null /\ back[f] = EmptyStr)

\* status and quantity are never null in the row: 'Unopened' and 0 stand in
\* for a status and a quantity the payload leaves out
ConcreteDefaults(payload, row) ==
    /\ row.status.t = "str" /\ row.status # EmptyStr
    /\ row.quantity.t \in {"num", "nan"}
    /\ ~Truthy(payload.status) => row.status = Unopened
    /\ LooseNull(payload.quantity) => row.quantity = Num(0)

\* C13 as claimed: for every item createItem produces, the item read back
\* from its row is the item, field by field; empty optional fields are null in
\* the row and empty strings in the item read back; status and quantity are
\* never null in the row.
C13_RoundTripIsIdentity ==
    probe.fn = "roundTrip" =>
        LET payload == probe.in[1]
            item == probe.in[2]
            row == probe.out[1]
            back == probe.out[2]
        IN /\ back = item
           /\ EmptyStoredAsNull(item, row, back)
           /\ ConcreteDefaults(payload, row)

\* C13 as amended: the item read back is the item in every field but a
\* category that is null or undefined, which comes back as the empty string;
\* the rest as claimed.
C13_RoundTripButMissingCategory ==
    probe.fn = "roundTrip" =>
        LET payload == probe.in[1]
            item == probe.in[2]
            row == probe.out[1]
            back == probe.out[2]
        IN /\ \A f \in DOMAIN item \ {"category"} : back[f] = item[f]
           /\ back.category = IF LooseNull(item.category) THEN EmptyStr ELSE item.category
           /\ LooseNull(item.category) => row.category = Null
           /\ EmptyStoredAsNull(item, row, back)
           /\ ConcreteDefaults(payload, row)

\* a payload with no category, no status and no quantity and an empty brand:
\* the row has null, 'Unopened', 0 and null, the item read back '' for both
C13_Witness ==
    /\ probe.fn = "roundTrip"
    /\ probe.in[1].category = Undefined
    /\ probe.in[1].status = Undefined
    /\ probe.in[1].quantity = Undefined
    /\ probe.in[2].brand = EmptyStr
    /\ probe.out[1].category = Null
    /\ probe.out[1].status = Unopened
    /\ probe.out[1].quantity = Num(0)
    /\ probe.out[1].brand = Null
    /\ probe.out[2].category = EmptyStr
    /\ probe.out[2].brand = EmptyStr

====
